---- MODULE Spec2Model ----
(***************************************************************************)
(* Ticket lifecycle and credit ledger of the VIN report bot.               *)
(*                                                                         *)
(* The persistent store (tickets, user_subscriptions, payments) is shared  *)
(* by all handler instances.  Every inbound event is handled by its own    *)
(* task (Dispatcher.start_polling(handle_as_tasks=True), src/src/bot.py).  *)
(* A task is at a program position pc; one step of a task is one access to *)
(* the store (a session read, a session commit, one db_adapter call)       *)
(* together with the local code that follows it up to the next access.     *)
(* The code takes no lock and uses no conditional update, so steps of      *)
(* different tasks interleave freely.                                      *)
(***************************************************************************)
EXTENDS Integers, Sequences, FiniteSets, TLC

(***************************************************************************)
(* Bounds of the model.                                                    *)
(***************************************************************************)
MaxTasks == 2
MaxEvents == 4
MaxPayments == 2
NumRequesters == 2
NumOperators == 2

Tasks == 1..MaxTasks
Requesters == 1..NumRequesters
Operators == {10 + i : i \in 1..NumOperators}

(***************************************************************************)
(* Program constants.                                                      *)
(***************************************************************************)
SINGLE_REPORT_PRICE == 200
BULK_REPORTS_PRICE == 10000
BULK_REPORTS_COUNT == 100
SINGLE_REPORTS_COUNT == 1
VIN_LENGTH == 17
MAX_FILE_SIZE == 52428800
TAKE_ATTEMPTS == 3
DEFAULT_MAX_SIZE == 52428800

(***************************************************************************)
(* Text is a sequence of one-character strings.                            *)
(***************************************************************************)
LowerChars == <<"a","b","c","d","e","f","g","h","i","j","k","l","m",
                "n","o","p","q","r","s","t","u","v","w","x","y","z">>
UpperChars == <<"A","B","C","D","E","F","G","H","I","J","K","L","M",
                "N","O","P","Q","R","S","T","U","V","W","X","Y","Z">>
Digits == {"0","1","2","3","4","5","6","7","8","9"}
Whitespace == {" ", "\t", "\n"}

Range(s) == {s[i] : i \in DOMAIN s}

UpperChar(c) ==
  IF \E i \in DOMAIN LowerChars : LowerChars[i] = c
    THEN UpperChars[CHOOSE i \in DOMAIN LowerChars : LowerChars[i] = c]
    ELSE c

Upper(s) == [i \in DOMAIN s |-> UpperChar(s[i])]

LowerChar(c) ==
  IF \E i \in DOMAIN UpperChars : UpperChars[i] = c
    THEN LowerChars[CHOOSE i \in DOMAIN UpperChars : UpperChars[i] = c]
    ELSE c

Lower(s) == [i \in DOMAIN s |-> LowerChar(s[i])]

Strip(s) ==
  LET keep == {i \in DOMAIN s : s[i] \notin Whitespace}
  IN  IF keep = {} THEN <<>>
      ELSE LET lo == CHOOSE i \in keep : \A j \in keep : i <= j
               hi == CHOOSE i \in keep : \A j \in keep : j <= i
           IN  SubSeq(s, lo, hi)

FORBIDDEN_CHARS == {"I", "O", "Q"}

\* the character class [A-HJ-NPR-Z0-9] of VIN_PATTERN
VinAlphabet == (Range(UpperChars) \ FORBIDDEN_CHARS) \cup Digits

VIN_PATTERN(s) == Len(s) = VIN_LENGTH /\ \A i \in DOMAIN s : s[i] \in VinAlphabet

\* a validate without the length check
validate_no_length_check(vin) ==
  IF vin = <<>> THEN "empty"
  ELSE LET cleaned_vin == Upper(Strip(vin))
       IN  IF Range(cleaned_vin) \cap FORBIDDEN_CHARS # {} THEN "forbidden"
           ELSE IF ~VIN_PATTERN(cleaned_vin) THEN "invalid"
           ELSE "ok"

\* a validate that looks for the forbidden letters before upper-casing
validate_forbidden_case_sensitive(vin) ==
  IF vin = <<>> THEN "empty"
  ELSE LET cleaned_vin == Upper(Strip(vin))
       IN  IF Len(cleaned_vin) # VIN_LENGTH THEN "length"
           ELSE IF Range(Strip(vin)) \cap FORBIDDEN_CHARS # {} THEN "forbidden"
           ELSE IF ~VIN_PATTERN(cleaned_vin) THEN "invalid"
           ELSE "ok"

\* a validate that matches the pattern before it looks for forbidden letters
validate_pattern_first(vin) ==
  IF vin = <<>> THEN "empty"
  ELSE LET cleaned_vin == Upper(Strip(vin))
       IN  IF Len(cleaned_vin) # VIN_LENGTH THEN "length"
           ELSE IF ~VIN_PATTERN(cleaned_vin) THEN "invalid"
           ELSE IF Range(cleaned_vin) \cap FORBIDDEN_CHARS # {} THEN "forbidden"
           ELSE "ok"

\* VINValidator.validate: the failure category, or "ok"
validate(vin) ==
  IF vin = <<>> THEN "empty"
  ELSE LET cleaned_vin == Upper(Strip(vin))
       IN  IF Len(cleaned_vin) # VIN_LENGTH THEN "length"
           ELSE IF Range(cleaned_vin) \cap FORBIDDEN_CHARS # {} THEN "forbidden"
           ELSE IF ~VIN_PATTERN(cleaned_vin) THEN "invalid"
           ELSE "ok"

\* a normalize that does not strip
normalize_upper_only(vin) == Upper(vin)

\* VINValidator.normalize
normalize(vin) == Upper(Strip(vin))

\* VINValidator.is_valid
is_valid(vin) == validate(vin) = "ok"

\* a size check that refuses the ceiling itself
validate_document_size_exclusive(file_size, max_size) ==
  IF file_size <= 0 THEN "not_positive"
  ELSE IF file_size >= max_size THEN "too_big"
  ELSE "ok"

\* MessageValidator.validate_document_size: the failure category, or "ok"
validate_document_size(file_size, max_size) ==
  IF file_size <= 0 THEN "not_positive"
  ELSE IF file_size > max_size THEN "too_big"
  ELSE "ok"

\* file_name and file_name.lower().endswith('.pdf'); no name is <<>>
is_pdf_name(file_name) ==
  /\ Len(file_name) >= 4
  /\ Lower(SubSeq(file_name, Len(file_name) - 3, Len(file_name))) = <<".", "p", "d", "f">>

\* user.handle_document_reply: the type check, then the size check
user_document_accepted(file_name, file_size) ==
  IF ~is_pdf_name(file_name) THEN FALSE
  ELSE IF file_size > MAX_FILE_SIZE THEN FALSE
  ELSE TRUE

\* manager.cmd_done and manager.handle_document_reply: the size check with
\* settings.max_file_size, then the type check
manager_document_accepted(file_name, file_size, max_file_size) ==
  IF validate_document_size(file_size, max_file_size) # "ok" THEN FALSE
  ELSE IF ~is_pdf_name(file_name) THEN FALSE
  ELSE TRUE

(***************************************************************************)
(* Inputs of the events.                                                   *)
(***************************************************************************)
VinA == <<"1","H","G","B","H","4","1","J","X","M","N","1","0","9","1","8","6">>
VinALower == <<" ","1","h","g","b","h","4","1","j","x","m","n","1","0","9","1","8","6">>
VinBad == <<"1","H","G","B","H","4","1","J","X","M","N","1","0","9","1","8","O">>
VinShort == <<"1","H","G">>
VinBlank == <<" ">>
Texts == {VinA, VinALower, VinBad, VinShort, VinBlank}

\* the validator's verdict and the normalized form of each input text
Validated == [x \in Texts |-> validate(Strip(x))]
Normalized == [x \in Texts |-> normalize(Strip(x))]

\* inputs of the validators: a valid identifier with one character replaced,
\* cut or extended, between paddings
Pads == {<<>>, <<" ">>, <<"\t", " ">>}
ProbeChars == {"A", "a", "I", "i", "o", "Q", "q", "-", " ", "0"}
VinBodies ==
  {[VinA EXCEPT ![i] = c] : i \in {1, 9, 17}, c \in ProbeChars}
    \cup {SubSeq(VinA, 1, n) : n \in {0, 3, 16}}
    \cup {[SubSeq(VinA, 1, 16) EXCEPT ![16] = c] : c \in {"i", "O"}}
    \cup {VinA \o <<"7">>, [[VinA EXCEPT ![1] = "-"] EXCEPT ![17] = "I"]}
VinInputs == {l \o b \o r : l \in Pads, b \in VinBodies, r \in Pads}

FileNames == {<<>>, <<"a", ".", "p", "d", "f">>, <<"A", ".", "P", "D", "F">>,
              <<"a", ".", "t", "x", "t">>, <<"p", "d", "f">>}
FileSizes == {-1, 0, 1, 1024, MAX_FILE_SIZE - 1, MAX_FILE_SIZE, MAX_FILE_SIZE + 1,
              2 * MAX_FILE_SIZE}
MaxSizes == {1024, DEFAULT_MAX_SIZE, 2 * MAX_FILE_SIZE}

PaymentTypes == {"single", "bulk", "gold"}
GrantSizes == {SINGLE_REPORTS_COUNT, BULK_REPORTS_COUNT}
\* a direct grant of a few reports, for balances between the two tiers
PriorGrant == 5
DirectGrantSizes == GrantSizes \cup {PriorGrant}

(***************************************************************************)
(* State.                                                                  *)
(*   tickets, subscriptions, payments : the rows of the three tables, in   *)
(*       primary-key order (a row's id is its position; rows are never     *)
(*       deleted)                                                          *)
(*   session_factory : db.db_manager.session_factory is set                *)
(*   use_supabase    : DatabaseAdapter.use_supabase                        *)
(*   adapter         : the backend DatabaseAdapter.initialize has set up   *)
(*   manager_chat    : ticket ids of the cards posted to the operator pool *)
(*   forwarded       : documents forwarded to requesters                   *)
(*   task            : the handler instances                               *)
(*   events          : number of events and calls started so far           *)
(***************************************************************************)
VARIABLES tickets, subscriptions, payments, session_factory, use_supabase,
          adapter, manager_chat, forwarded, task, events

vars == <<tickets, subscriptions, payments, session_factory, use_supabase,
          adapter, manager_chat, forwarded, task, events>>

store == <<tickets, subscriptions, payments>>
wiring == <<session_factory, use_supabase, adapter>>
chats == <<manager_chat, forwarded>>

Idle == [kind |-> "none", pc |-> "idle", who |-> 0, ref |-> 0, text |-> <<>>,
         count |-> 0, row |-> 0, rem |-> 0, tot |-> 0, st |-> "", owner |-> 0,
         tries |-> 0, pdf |-> FALSE, size |-> 0, out |-> <<>>, ret |-> ""]

Init ==
  /\ tickets = <<>>
  /\ subscriptions = <<>>
  /\ payments = <<>>
  /\ session_factory = FALSE
  /\ use_supabase = FALSE
  /\ adapter = "none"
  /\ manager_chat = <<>>
  /\ forwarded = <<>>
  /\ task = [t \in Tasks |-> Idle]
  /\ events = 0

Free(t) == task[t].pc \in {"idle", "done"}
Running(t) == ~Free(t)

AllFree == \A s \in Tasks : Free(s)
FirstFree(t) == \A s \in Tasks : s < t => Running(s)
\* with one call at a time, the slots keep the last MaxTasks calls
NextSlot(t) == t = (events % MaxTasks) + 1
\* the slots are taken in turn, so that they keep the last calls; a call that
\* finds the slot of its turn busy takes the first free one
StartSlot(t) ==
  IF \E s \in Tasks : NextSlot(s) /\ Free(s) THEN NextSlot(t) ELSE FirstFree(t)

\* a new event can be handled by slot t
CanStart(t) ==
  /\ events < MaxEvents
  /\ Free(t)

\* a finished handler: its arguments and its outcome remain, its locals are gone
Done(rec, outcome) ==
  [Idle EXCEPT !.kind = rec.kind, !.pc = "done", !.who = rec.who, !.ref = rec.ref,
               !.count = IF rec.kind = "grant" THEN rec.count ELSE 0,
               !.text = IF rec.kind = "submit" THEN rec.text ELSE <<>>,
               !.st = IF rec.kind = "create_payment" THEN rec.st ELSE "",
               !.pdf = rec.pdf, !.size = rec.size, !.ret = outcome]

(***************************************************************************)
(* Start-up.                                                               *)
(***************************************************************************)
\* db.init_db: DatabaseManager.initialize + create_tables
init_db ==
  /\ ~session_factory
  /\ session_factory' = TRUE
  /\ UNCHANGED <<store, use_supabase, adapter, chats, task, events>>

\* VINReportBot.initialize: db_adapter.initialize(); db_manager is not touched.
\* The backend is the deployment's setting (settings.use_supabase, read when
\* the adapter is constructed); nothing reads it before this step.
initialize ==
  /\ adapter = "none"
  /\ \E remote \in BOOLEAN :
       /\ use_supabase' = remote
       /\ adapter' = IF remote THEN "supabase" ELSE "sqlite"
  /\ UNCHANGED <<store, session_factory, chats, task, events>>

\* db_adapter.initialize with the remote backend selected and unreachable:
\* _init_supabase raises, _init_sqlite runs, self.use_supabase stays True
initialize_remote_unreachable ==
  /\ adapter = "none"
  /\ use_supabase' = TRUE
  /\ adapter' = "sqlite"
  /\ UNCHANGED <<store, session_factory, chats, task, events>>

(***************************************************************************)
(* Credit ledger (PaymentService).                                         *)
(***************************************************************************)
SubRows(u) == {i \in DOMAIN subscriptions : subscriptions[i].user_id = u}

\* get_db_session + select(UserSubscription).where(user_id == u).scalar_one_or_none()
SubRead(u) ==
  IF ~session_factory THEN [res |-> "raise", row |-> 0]
  ELSE IF Cardinality(SubRows(u)) > 1 THEN [res |-> "raise", row |-> 0]
  ELSE IF SubRows(u) = {} THEN [res |-> "none", row |-> 0]
  ELSE [res |-> "row", row |-> CHOOSE i \in SubRows(u) : TRUE]

\* UserSubscription.can_generate_report
can_generate_report(sub) == sub.reports_remaining > 0

\* UserSubscription.use_report on the session's copy of the row: the new
\* value of reports_remaining, or -1 when the report is refused
\* a consume that leaves the balance as it was
use_report_keeps_balance(sub) ==
  IF sub.reports_remaining > 0 THEN sub.reports_remaining ELSE -1

\* a consume that takes two reports
use_report_takes_two(sub) ==
  IF sub.reports_remaining > 0 THEN sub.reports_remaining - 2 ELSE -1

use_report(sub) ==
  IF sub.reports_remaining > 0 THEN sub.reports_remaining - 1 ELSE -1

\* continuation of the caller when use_user_report returns
AfterUse(rec, result) ==
  IF rec.kind = "submit"
    THEN IF result = "True" THEN [rec EXCEPT !.pc = "create"]
         ELSE IF result = "False" THEN Done(rec, "use_failed")
         ELSE Done(rec, "raised")
    ELSE Done(rec, result)

\* PaymentService.use_user_report, up to the decision to commit
use_user_report_read(t) ==
  /\ task[t].pc = "use_read"
  /\ LET rd == SubRead(task[t].who)
         rec == task[t]
     IN  task' = [task EXCEPT ![t] =
           IF rd.res = "raise" THEN AfterUse(rec, "raise")
           ELSE IF rd.res = "none" THEN AfterUse(rec, "False")
           ELSE IF use_report(subscriptions[rd.row]) < 0 THEN AfterUse(rec, "False")
           ELSE [rec EXCEPT !.pc = "use_commit", !.row = rd.row,
                            !.rem = use_report(subscriptions[rd.row])]]
  /\ UNCHANGED <<store, wiring, chats, events>>

\* PaymentService.use_user_report: session.commit() writes the decremented
\* value held by the session
use_user_report_commit(t) ==
  /\ task[t].pc = "use_commit"
  /\ subscriptions' = [subscriptions EXCEPT ![task[t].row].reports_remaining = task[t].rem]
  /\ task' = [task EXCEPT ![t] = AfterUse([task[t] EXCEPT !.row = 0, !.rem = 0], "True")]
  /\ UNCHANGED <<tickets, payments, wiring, chats, events>>

\* continuation of the caller when create_user_subscription returns or raises
AfterGrant(rec, result) ==
  IF rec.kind = "complete"
    THEN IF result = "ok" THEN [rec EXCEPT !.pc = "pay_commit"]
         ELSE Done(rec, "raise")
    ELSE Done(rec, result)

\* a grant that credits reports_remaining and leaves total_reports of an
\* existing row as it was
create_user_subscription_read_remaining_only(t) ==
  /\ task[t].pc = "grant_read"
  /\ LET rec == task[t]
         u == IF rec.kind = "complete" THEN rec.owner ELSE rec.who
         rd == SubRead(u)
     IN  task' = [task EXCEPT ![t] =
           IF rd.res = "raise" THEN AfterGrant(rec, "raise")
           ELSE IF rd.res = "none"
             THEN [rec EXCEPT !.pc = "grant_commit", !.row = 0,
                              !.rem = rec.count, !.tot = rec.count]
           ELSE [rec EXCEPT !.pc = "grant_commit", !.row = rd.row,
                   !.rem = subscriptions[rd.row].reports_remaining + rec.count,
                   !.tot = subscriptions[rd.row].total_reports]]
  /\ UNCHANGED <<store, wiring, chats, events>>

\* PaymentService.create_user_subscription, up to session.commit()
create_user_subscription_read(t) ==
  /\ task[t].pc = "grant_read"
  /\ LET rec == task[t]
         u == IF rec.kind = "complete" THEN rec.owner ELSE rec.who
         rd == SubRead(u)
     IN  task' = [task EXCEPT ![t] =
           IF rd.res = "raise" THEN AfterGrant(rec, "raise")
           ELSE IF rd.res = "none"
             THEN [rec EXCEPT !.pc = "grant_commit", !.row = 0,
                              !.rem = rec.count, !.tot = rec.count]
           ELSE [rec EXCEPT !.pc = "grant_commit", !.row = rd.row,
                   !.rem = subscriptions[rd.row].reports_remaining + rec.count,
                   !.tot = subscriptions[rd.row].total_reports + rec.count]]
  /\ UNCHANGED <<store, wiring, chats, events>>

\* PaymentService.create_user_subscription: session.commit(), refresh, return
create_user_subscription_commit(t) ==
  /\ task[t].pc = "grant_commit"
  /\ LET u == IF task[t].kind = "complete" THEN task[t].owner ELSE task[t].who
     IN  subscriptions' =
           IF task[t].row = 0
             THEN Append(subscriptions, [user_id |-> u,
                                         reports_remaining |-> task[t].rem,
                                         total_reports |-> task[t].tot])
             ELSE [subscriptions EXCEPT ![task[t].row].reports_remaining = task[t].rem,
                                        ![task[t].row].total_reports = task[t].tot]
  /\ task' = [task EXCEPT ![t] = AfterGrant([task[t] EXCEPT !.row = 0, !.rem = 0, !.tot = 0], "ok")]
  /\ UNCHANGED <<tickets, payments, wiring, chats, events>>

\* the select of create_user_subscription raises (the store cannot be read):
\* get_session rolls back and the exception reaches the caller
create_user_subscription_read_fails(t) ==
  /\ task[t].pc = "grant_read"
  /\ session_factory
  /\ task' = [task EXCEPT ![t] = AfterGrant(@, "raise")]
  /\ UNCHANGED <<store, wiring, chats, events>>

\* session.commit() of create_user_subscription raises: nothing is written
create_user_subscription_commit_fails(t) ==
  /\ task[t].pc = "grant_commit"
  /\ task' = [task EXCEPT ![t] = AfterGrant(@, "raise")]
  /\ UNCHANGED <<store, wiring, chats, events>>

\* a direct call of PaymentService.use_user_report(user_id)
call_use_user_report(t, u) ==
  /\ CanStart(t)
  /\ task' = [task EXCEPT ![t] = [Idle EXCEPT !.kind = "use", !.pc = "use_read", !.who = u]]
  /\ events' = events + 1
  /\ UNCHANGED <<store, wiring, chats>>

\* a direct call of PaymentService.create_user_subscription(user_id, reports_count)
call_create_user_subscription(t, u, n) ==
  /\ CanStart(t)
  /\ task' = [task EXCEPT ![t] = [Idle EXCEPT !.kind = "grant", !.pc = "grant_read",
                                              !.who = u, !.count = n]]
  /\ events' = events + 1
  /\ UNCHANGED <<store, wiring, chats>>

(***************************************************************************)
(* Payment flow (PaymentService).                                          *)
(***************************************************************************)
\* a create_payment that bills every unknown type as a bulk purchase
create_payment_any_type(t, u, ptype) ==
  /\ CanStart(t)
  /\ Len(payments) < MaxPayments
  /\ LET amount == IF ptype = "single" THEN SINGLE_REPORT_PRICE ELSE BULK_REPORTS_PRICE
         reports_count == IF ptype = "single" THEN SINGLE_REPORTS_COUNT ELSE BULK_REPORTS_COUNT
         rec == [Idle EXCEPT !.kind = "create_payment", !.who = u, !.st = ptype]
     IN  IF ~session_factory
           THEN /\ task' = [task EXCEPT ![t] = Done(rec, "raise")]
                /\ UNCHANGED payments
         ELSE /\ payments' = Append(payments,
                     [user_id |-> u, payment_type |-> ptype, amount |-> amount,
                      reports_count |-> reports_count, status |-> "pending",
                      completed_at |-> FALSE])
              /\ task' = [task EXCEPT ![t] = Done([rec EXCEPT !.ref = Len(payments) + 1], "created")]
  /\ events' = events + 1
  /\ UNCHANGED <<tickets, subscriptions, wiring, chats>>

\* PaymentService.create_payment(user_id, payment_type): one commit
create_payment(t, u, ptype) ==
  /\ CanStart(t)
  /\ Len(payments) < MaxPayments
  /\ LET known == ptype \in {"single", "bulk"}
         amount == IF ptype = "single" THEN SINGLE_REPORT_PRICE ELSE BULK_REPORTS_PRICE
         reports_count == IF ptype = "single" THEN SINGLE_REPORTS_COUNT ELSE BULK_REPORTS_COUNT
         rec == [Idle EXCEPT !.kind = "create_payment", !.who = u, !.st = ptype]
     IN  IF ~known
           THEN /\ task' = [task EXCEPT ![t] = Done(rec, "ValueError")]
                /\ UNCHANGED payments
         ELSE IF ~session_factory
           THEN /\ task' = [task EXCEPT ![t] = Done(rec, "raise")]
                /\ UNCHANGED payments
         ELSE /\ payments' = Append(payments,
                     [user_id |-> u, payment_type |-> ptype, amount |-> amount,
                      reports_count |-> reports_count, status |-> "pending",
                      completed_at |-> FALSE])
              /\ task' = [task EXCEPT ![t] = Done([rec EXCEPT !.ref = Len(payments) + 1], "created")]
  /\ events' = events + 1
  /\ UNCHANGED <<tickets, subscriptions, wiring, chats>>

\* a call of PaymentService.complete_payment(payment_id)
call_complete_payment(t, pid) ==
  /\ CanStart(t)
  /\ task' = [task EXCEPT ![t] = [Idle EXCEPT !.kind = "complete", !.pc = "pay_read", !.ref = pid]]
  /\ events' = events + 1
  /\ UNCHANGED <<store, wiring, chats>>

\* PaymentService.complete_payment: read the payment, check its status and
\* set status/completed_at on the session's copy
\* a completion that persists the new status before the grant
complete_payment_read_flips_first(t) ==
  /\ task[t].pc = "pay_read"
  /\ LET rec == task[t]
         go == /\ session_factory
               /\ rec.ref \in DOMAIN payments
               /\ payments[rec.ref].status = "pending"
     IN  /\ task' = [task EXCEPT ![t] =
               IF ~session_factory THEN Done(rec, "raise")
               ELSE IF ~go THEN Done(rec, "False")
               ELSE [rec EXCEPT !.pc = "grant_read",
                                !.owner = payments[rec.ref].user_id,
                                !.count = payments[rec.ref].reports_count]]
         /\ payments' = IF go THEN [payments EXCEPT ![rec.ref].status = "completed",
                                                     ![rec.ref].completed_at = TRUE]
                         ELSE payments
  /\ UNCHANGED <<tickets, subscriptions, wiring, chats, events>>

\* a completion that does not look at the payment's status
complete_payment_read_any_status(t) ==
  /\ task[t].pc = "pay_read"
  /\ LET rec == task[t]
     IN  task' = [task EXCEPT ![t] =
           IF ~session_factory THEN Done(rec, "raise")
           ELSE IF rec.ref \notin DOMAIN payments THEN Done(rec, "False")
           ELSE [rec EXCEPT !.pc = "grant_read",
                            !.owner = payments[rec.ref].user_id,
                            !.count = payments[rec.ref].reports_count]]
  /\ UNCHANGED <<store, wiring, chats, events>>

complete_payment_read(t) ==
  /\ task[t].pc = "pay_read"
  /\ LET rec == task[t]
     IN  task' = [task EXCEPT ![t] =
           IF ~session_factory THEN Done(rec, "raise")
           ELSE IF rec.ref \notin DOMAIN payments THEN Done(rec, "False")
           ELSE IF payments[rec.ref].status # "pending" THEN Done(rec, "False")
           ELSE [rec EXCEPT !.pc = "grant_read",
                            !.owner = payments[rec.ref].user_id,
                            !.count = payments[rec.ref].reports_count]]
  /\ UNCHANGED <<store, wiring, chats, events>>

\* PaymentService.complete_payment: session.commit() after the grant
complete_payment_commit(t) ==
  /\ task[t].pc = "pay_commit"
  /\ payments' = [payments EXCEPT ![task[t].ref].status = "completed",
                                  ![task[t].ref].completed_at = TRUE]
  /\ task' = [task EXCEPT ![t] = Done(@, "True")]
  /\ UNCHANGED <<tickets, subscriptions, wiring, chats, events>>

\* the final session.commit() of complete_payment raises: get_session rolls
\* the payment back; the grant was committed in its own session
complete_payment_commit_fails(t) ==
  /\ task[t].pc = "pay_commit"
  /\ task' = [task EXCEPT ![t] = Done(@, "raise")]
  /\ UNCHANGED <<store, wiring, chats, events>>

(***************************************************************************)
(* Ticket store (DatabaseAdapter).                                         *)
(***************************************************************************)
\* DatabaseAdapter.create_ticket / get_ticket / update_ticket_status dispatch on
\* self.use_supabase, which initialize never changes: after a fallback to the
\* local backend the remote path is still taken and finds no supabase_client
BackendRaises == use_supabase /\ adapter # "supabase"

\* an insert that records the requester as assignee
create_ticket_with_assignee(tk, vin, user_id) ==
  Append(tk, [vin |-> vin, user_id |-> user_id, status |-> "NEW", assignee_id |-> user_id])

\* DatabaseAdapter.create_ticket: the table after the insert
create_ticket(tk, vin, user_id) ==
  Append(tk, [vin |-> vin, user_id |-> user_id, status |-> "NEW", assignee_id |-> 0])

\* DatabaseAdapter.get_ticket: the row is found
get_ticket(tk, id) == id \in DOMAIN tk

\* DatabaseAdapter._update_ticket_sqlite: the row after the update
update_ticket_sqlite(row, status, assignee_id) ==
  [row EXCEPT !.status = status,
              !.assignee_id = IF assignee_id # 0 THEN assignee_id ELSE @]

\* DatabaseAdapter._update_ticket_supabase: update_data carries the status only
update_ticket_supabase(row, status, assignee_id) ==
  [row EXCEPT !.status = status]

\* DatabaseAdapter.update_ticket_status: the table after the update
update_ticket_status(tk, id, status, assignee_id) ==
  IF id \notin DOMAIN tk THEN tk
  ELSE [tk EXCEPT ![id] = IF use_supabase
                            THEN update_ticket_supabase(@, status, assignee_id)
                            ELSE update_ticket_sqlite(@, status, assignee_id)]

\* the identifiers that pass validation, as Submit hands them to create_ticket
Vins == {Normalized[x] : x \in {y \in Texts : Validated[y] = "ok"}}

\* a db_adapter.create_ticket call on its own
call_create_ticket(t, vin, user_id) ==
  /\ CanStart(t)
  /\ adapter # "none"
  /\ LET rec == [Idle EXCEPT !.kind = "create", !.who = user_id]
     IN  IF BackendRaises
           THEN /\ task' = [task EXCEPT ![t] = Done(rec, "error")]
                /\ UNCHANGED tickets
           ELSE /\ tickets' = create_ticket(tickets, vin, user_id)
                /\ task' = [task EXCEPT ![t] =
                             Done([rec EXCEPT !.ref = Len(tickets) + 1], "created")]
  /\ events' = events + 1
  /\ UNCHANGED <<subscriptions, payments, wiring, chats>>

(***************************************************************************)
(* Claim (callbacks.handle_take_ticket).                                   *)
(***************************************************************************)
MaxTicketRef == 2
TicketRefs == 1..MaxTicketRef

handle_take_ticket(t, ticket_id, manager_id, in_manager_chat) ==
  /\ CanStart(t)
  /\ adapter # "none"
  /\ LET rec == [Idle EXCEPT !.kind = "claim"]
     IN  task' = [task EXCEPT ![t] =
           IF ~in_manager_chat THEN Done(rec, "managers_only")
           ELSE [rec EXCEPT !.pc = "take_get", !.who = manager_id, !.ref = ticket_id]]
  /\ events' = events + 1
  /\ UNCHANGED <<store, wiring, chats>>

\* a lookup that does not check the status
take_get_ticket_any_status(t) ==
  /\ task[t].pc = "take_get"
  /\ LET rec == task[t]
     IN  task' = [task EXCEPT ![t] =
           IF BackendRaises THEN Done(rec, "error")
           ELSE IF get_ticket(tickets, rec.ref)
             THEN [rec EXCEPT !.pc = "take_update", !.st = tickets[rec.ref].status,
                              !.owner = tickets[rec.ref].user_id]
             ELSE IF rec.tries + 1 < TAKE_ATTEMPTS THEN [rec EXCEPT !.tries = rec.tries + 1]
                  ELSE Done([rec EXCEPT !.tries = rec.tries + 1], "not_found")]
  /\ UNCHANGED <<store, wiring, chats, events>>

\* a lookup that gives up at the first miss
take_get_ticket_single_attempt(t) ==
  /\ task[t].pc = "take_get"
  /\ LET rec == task[t]
     IN  task' = [task EXCEPT ![t] =
           IF BackendRaises THEN Done(rec, "error")
           ELSE IF get_ticket(tickets, rec.ref)
             THEN IF tickets[rec.ref].status # "NEW" THEN Done(rec, "already_assigned")
                  ELSE [rec EXCEPT !.pc = "take_update", !.st = tickets[rec.ref].status,
                                   !.owner = tickets[rec.ref].user_id]
             ELSE Done([rec EXCEPT !.tries = rec.tries + 1], "not_found")]
  /\ UNCHANGED <<store, wiring, chats, events>>

\* one pass of the retry loop: get_ticket, then the status check
take_get_ticket(t) ==
  /\ task[t].pc = "take_get"
  /\ LET rec == task[t]
     IN  task' = [task EXCEPT ![t] =
           IF BackendRaises THEN Done(rec, "error")
           ELSE IF get_ticket(tickets, rec.ref)
             THEN IF tickets[rec.ref].status # "NEW" THEN Done(rec, "already_assigned")
                  ELSE [rec EXCEPT !.pc = "take_update", !.st = tickets[rec.ref].status,
                                   !.owner = tickets[rec.ref].user_id]
             ELSE IF rec.tries + 1 < TAKE_ATTEMPTS THEN [rec EXCEPT !.tries = rec.tries + 1]
                  ELSE Done([rec EXCEPT !.tries = rec.tries + 1], "not_found")]
  /\ UNCHANGED <<store, wiring, chats, events>>

\* update_ticket_status(ticket_id, "TAKEN", manager_id), card edit, answer
take_update(t) ==
  /\ task[t].pc = "take_update"
  /\ tickets' = update_ticket_status(tickets, task[t].ref, "TAKEN", task[t].who)
  /\ task' = [task EXCEPT ![t] = Done(@, "success")]
  /\ UNCHANGED <<subscriptions, payments, wiring, chats, events>>

(***************************************************************************)
(* Fulfill (user.handle_document_reply, user._process_ticket_completion).  *)
(***************************************************************************)
NoReply == -1
NoMatch == 0
Documents == {[pdf |-> TRUE, file_size |-> 1],
              [pdf |-> FALSE, file_size |-> 1],
              [pdf |-> TRUE, file_size |-> MAX_FILE_SIZE + 1]}

\* an entry that does not look at the file name
handle_document_reply_any_type(t, manager_id, in_manager_chat, reply, document) ==
  /\ CanStart(t)
  /\ adapter # "none"
  /\ LET rec == [Idle EXCEPT !.kind = "fulfill"]
         ticket == [rec EXCEPT !.ref = reply, !.pdf = document.pdf,
                               !.size = document.file_size]
     IN  task' = [task EXCEPT ![t] =
           IF ~in_manager_chat THEN Done(rec, "ignored")
           ELSE IF reply = NoReply THEN Done(rec, "need_reply")
           ELSE IF reply = NoMatch THEN Done(rec, "no_ticket_number")
           ELSE IF document.file_size > MAX_FILE_SIZE THEN Done(ticket, "too_big")
           ELSE [ticket EXCEPT !.pc = "done_get", !.who = manager_id]]
  /\ events' = events + 1
  /\ UNCHANGED <<store, wiring, chats>>

\* reply: the ticket number found in the replied message (NoMatch when the
\* pattern does not match, NoReply when the document is not a reply)
handle_document_reply(t, manager_id, in_manager_chat, reply, document) ==
  /\ CanStart(t)
  /\ adapter # "none"
  /\ LET rec == [Idle EXCEPT !.kind = "fulfill"]
         ticket == [rec EXCEPT !.ref = reply, !.pdf = document.pdf,
                               !.size = document.file_size]
     IN  task' = [task EXCEPT ![t] =
           IF ~in_manager_chat THEN Done(rec, "ignored")
           ELSE IF reply = NoReply THEN Done(rec, "need_reply")
           ELSE IF reply = NoMatch THEN Done(rec, "no_ticket_number")
           ELSE IF ~document.pdf THEN Done(ticket, "not_pdf")
           ELSE IF document.file_size > MAX_FILE_SIZE THEN Done(ticket, "too_big")
           ELSE [ticket EXCEPT !.pc = "done_get", !.who = manager_id]]
  /\ events' = events + 1
  /\ UNCHANGED <<store, wiring, chats>>

\* The text of a message as the words the pattern can tell apart, in Latin
\* transliteration; a run of digits is one word that carries its value.
Word(w) == [w |-> w, n |-> 0]
Number(n) == [w |-> "digits", n |-> n]

\* _send_ticket_to_managers: the card posted for a new ticket
\* ("Novaya zayavka na VIN-otchet / ID zayavki: #<id> / VIN: ... ")
ticket_text(id) ==
  <<Word("novaya"), Word("zayavka"), Word("na"), Word("vin-otchet"),
    Word("id"), Word("zayavki:"), Word("#"), Number(id),
    Word("vin:"), Word("<vin>"), Word("polzovatel:"), Word("@username"),
    Word("status:"), Word("new")>>

\* handle_take_ticket: the card after a Claim edited it
\* ("Novaya zayavka No<id> / Ot: ... / Status: naznachena")
updated_text(id) ==
  <<Word("novaya"), Word("zayavka"), Word("No"), Number(id),
    Word("ot:"), Word("@username"), Word("vin:"), Word("<vin>"),
    Word("status:"), Word("naznachena")>>

\* re.search(r"zayavka No(\d+)", replied_text): the number of the first
\* match, NoMatch when there is none
ticket_id_match(replied_text) ==
  LET hits == {i \in 1..(Len(replied_text) - 2) :
                 /\ replied_text[i].w = "zayavka"
                 /\ replied_text[i + 1].w = "No"
                 /\ replied_text[i + 2].w = "digits"}
  IN  IF hits = {} THEN NoMatch
      ELSE replied_text[(CHOOSE i \in hits : \A j \in hits : i <= j) + 2].n

\* the text of the k-th card of the operator chat: as posted while the
\* ticket is NEW, as edited once a Claim has assigned it
card_text(k) ==
  IF tickets[manager_chat[k]].status = "NEW"
    THEN ticket_text(manager_chat[k])
    ELSE updated_text(manager_chat[k])

\* an operator replies with a document to the k-th card of the operator chat
handle_document_reply_to_card(t, manager_id, k, document) ==
  /\ k \in DOMAIN manager_chat
  /\ handle_document_reply(t, manager_id, TRUE, ticket_id_match(card_text(k)), document)

\* a lookup that lets a DONE ticket through
done_get_ticket_any_status(t) ==
  /\ task[t].pc = "done_get"
  /\ LET rec == task[t]
     IN  task' = [task EXCEPT ![t] =
           IF BackendRaises THEN Done(rec, "error")
           ELSE IF ~get_ticket(tickets, rec.ref) THEN Done(rec, "not_found")
           ELSE [rec EXCEPT !.pc = "done_update", !.st = tickets[rec.ref].status,
                            !.owner = tickets[rec.ref].user_id]]
  /\ UNCHANGED <<store, wiring, chats, events>>

\* _process_ticket_completion: get_ticket and the status check
done_get_ticket(t) ==
  /\ task[t].pc = "done_get"
  /\ LET rec == task[t]
     IN  task' = [task EXCEPT ![t] =
           IF BackendRaises THEN Done(rec, "error")
           ELSE IF ~get_ticket(tickets, rec.ref) THEN Done(rec, "not_found")
           ELSE IF tickets[rec.ref].status = "DONE" THEN Done(rec, "already_done")
           ELSE [rec EXCEPT !.pc = "done_update", !.st = tickets[rec.ref].status,
                            !.owner = tickets[rec.ref].user_id]]
  /\ UNCHANGED <<store, wiring, chats, events>>

\* _process_ticket_completion: update_ticket_status(ticket_id, "DONE",
\* manager_id), _send_report_to_user(ticket_data), confirmation
done_update(t) ==
  /\ task[t].pc = "done_update"
  /\ tickets' = update_ticket_status(tickets, task[t].ref, "DONE", task[t].who)
  /\ forwarded' = Append(forwarded, [to |-> task[t].owner, ticket |-> task[t].ref,
                                     by |-> task[t].who])
  /\ task' = [task EXCEPT ![t] = Done(@, "report_sent")]
  /\ UNCHANGED <<subscriptions, payments, wiring, manager_chat, events>>

\* the same step when update_ticket_status raises: the except branch of
\* _process_ticket_completion sends the report to the requester all the same
\* and answers the operator that the ticket could not be completed
done_update_raises(t) ==
  /\ task[t].pc = "done_update"
  /\ forwarded' = Append(forwarded, [to |-> task[t].owner, ticket |-> task[t].ref,
                                     by |-> task[t].who])
  /\ task' = [task EXCEPT ![t] = Done(@, "error")]
  /\ UNCHANGED <<store, wiring, manager_chat, events>>

\* the same step when the send to the requester fails: _send_report_to_user
\* logs the exception and returns, and the confirmation follows as before
done_update_send_fails(t) ==
  /\ task[t].pc = "done_update"
  /\ tickets' = update_ticket_status(tickets, task[t].ref, "DONE", task[t].who)
  /\ task' = [task EXCEPT ![t] = Done(@, "report_sent")]
  /\ UNCHANGED <<subscriptions, payments, wiring, chats, events>>

(***************************************************************************)
(* Submit (user.handle_vin_message).                                       *)
(***************************************************************************)
\* a Submit that skips the validator
handle_vin_message_unvalidated(t, user_id, message_text) ==
  /\ CanStart(t)
  /\ adapter # "none"
  /\ LET text == Strip(message_text)
         rec == [Idle EXCEPT !.kind = "submit", !.who = user_id, !.text = text]
     IN  task' = [task EXCEPT ![t] =
           IF text = <<>> THEN Done(rec, "empty")
           ELSE [rec EXCEPT !.pc = "can", !.text = Normalized[message_text]]]
  /\ events' = events + 1
  /\ UNCHANGED <<store, wiring, chats>>

handle_vin_message(t, user_id, message_text) ==
  /\ CanStart(t)
  /\ adapter # "none"
  /\ LET text == Strip(message_text)
         rec == [Idle EXCEPT !.kind = "submit", !.who = user_id, !.text = text]
     IN  task' = [task EXCEPT ![t] =
           IF text = <<>> THEN Done(rec, "empty")
           ELSE IF Validated[message_text] # "ok" THEN Done(rec, Validated[message_text])
           ELSE [rec EXCEPT !.pc = "can", !.text = Normalized[message_text]]]
  /\ events' = events + 1
  /\ UNCHANGED <<store, wiring, chats>>

\* PaymentService.can_user_generate_report and the purchase-options branch
submit_can_generate(t) ==
  /\ task[t].pc = "can"
  /\ LET rd == SubRead(task[t].who)
     IN  task' = [task EXCEPT ![t] =
           IF rd.res = "raise" THEN Done(@, "raised")
           ELSE IF rd.res = "none" THEN Done(@, "purchase_options")
           ELSE IF ~can_generate_report(subscriptions[rd.row]) THEN Done(@, "purchase_options")
           ELSE [@ EXCEPT !.pc = "use_read"]]
  /\ UNCHANGED <<store, wiring, chats, events>>

\* db_adapter.create_ticket, the confirmation to the requester and
\* _send_ticket_to_managers
submit_create_ticket(t) ==
  /\ task[t].pc = "create"
  /\ tickets' = create_ticket(tickets, task[t].text, task[t].who)
  /\ manager_chat' = Append(manager_chat, Len(tickets) + 1)
  /\ task' = [task EXCEPT ![t] = Done([task[t] EXCEPT !.ref = Len(tickets) + 1], "accepted")]
  /\ UNCHANGED <<subscriptions, payments, wiring, forwarded, events>>

\* message.answer of the confirmation raises after create_ticket returned:
\* the except branch answers the error text and returns
submit_create_ticket_answer_fails(t) ==
  /\ task[t].pc = "create"
  /\ tickets' = create_ticket(tickets, task[t].text, task[t].who)
  /\ task' = [task EXCEPT ![t] = Done([task[t] EXCEPT !.ref = Len(tickets) + 1], "error")]
  /\ UNCHANGED <<subscriptions, payments, wiring, chats, events>>

\* db_adapter.create_ticket raises: the except branch answers the error text
\* and returns
submit_create_ticket_fails(t) ==
  /\ task[t].pc = "create"
  /\ task' = [task EXCEPT ![t] = Done(@, "error")]
  /\ UNCHANGED <<store, wiring, chats, events>>

\* bot.send_message of _send_ticket_to_managers raises: logged, nothing else
submit_create_ticket_send_fails(t) ==
  /\ task[t].pc = "create"
  /\ tickets' = create_ticket(tickets, task[t].text, task[t].who)
  /\ task' = [task EXCEPT ![t] = Done([task[t] EXCEPT !.ref = Len(tickets) + 1], "accepted")]
  /\ UNCHANGED <<subscriptions, payments, wiring, chats, events>>

(***************************************************************************)
(* Calls of the validators.  A call returns at once; the record keeps its  *)
(* arguments and its result.  The functions keep no state, so a behaviour  *)
(* is one call.                                                            *)
(***************************************************************************)
Fresh(t) == task[t].pc = "idle"

call_validate(t, vin) ==
  /\ CanStart(t) /\ Fresh(t)
  /\ task' = [task EXCEPT ![t] = [Idle EXCEPT !.kind = "validate", !.pc = "done",
                                              !.text = vin, !.ret = validate(vin)]]
  /\ events' = events + 1
  /\ UNCHANGED <<store, wiring, chats>>

call_normalize(t, vin) ==
  /\ CanStart(t) /\ Fresh(t)
  /\ task' = [task EXCEPT ![t] = [Idle EXCEPT !.kind = "normalize", !.pc = "done",
                                              !.text = vin, !.out = normalize(vin)]]
  /\ events' = events + 1
  /\ UNCHANGED <<store, wiring, chats>>

call_is_valid(t, vin) ==
  /\ CanStart(t) /\ Fresh(t)
  /\ task' = [task EXCEPT ![t] = [Idle EXCEPT !.kind = "is_valid", !.pc = "done",
                !.text = vin, !.ret = IF is_valid(vin) THEN "True" ELSE "False"]]
  /\ events' = events + 1
  /\ UNCHANGED <<store, wiring, chats>>

\* validate_document_size(file_size, max_size)
call_validate_document_size(t, file_size, max_size) ==
  /\ CanStart(t) /\ Fresh(t)
  /\ task' = [task EXCEPT ![t] = [Idle EXCEPT !.kind = "document_size", !.pc = "done",
                !.size = file_size, !.count = max_size,
                !.ret = validate_document_size(file_size, max_size)]]
  /\ events' = events + 1
  /\ UNCHANGED <<store, wiring, chats>>

\* validate_document_size(file_size): max_size takes its default
call_validate_document_size_default(t, file_size) ==
  /\ CanStart(t) /\ Fresh(t)
  /\ task' = [task EXCEPT ![t] = [Idle EXCEPT !.kind = "document_size_default",
                !.pc = "done", !.size = file_size,
                !.ret = validate_document_size(file_size, DEFAULT_MAX_SIZE)]]
  /\ events' = events + 1
  /\ UNCHANGED <<store, wiring, chats>>

\* the same attachment offered on both transports of Fulfill, with
\* settings.max_file_size = max_file_size: ret is the verdict of the reply
\* path, st the verdict of the manager path
call_document_checks(t, file_name, file_size, max_file_size) ==
  /\ CanStart(t) /\ Fresh(t)
  /\ task' = [task EXCEPT ![t] = [Idle EXCEPT !.kind = "document_checks", !.pc = "done",
                !.text = file_name, !.size = file_size, !.count = max_file_size,
                !.ret = IF user_document_accepted(file_name, file_size)
                          THEN "accepted" ELSE "rejected",
                !.st = IF manager_document_accepted(file_name, file_size, max_file_size)
                         THEN "accepted" ELSE "rejected"]]
  /\ events' = events + 1
  /\ UNCHANGED <<store, wiring, chats>>

(***************************************************************************)
(* Specifications.  Events arrive at any time and their tasks interleave.  *)
(*   Spec       : the ticket lifecycle (Submit, Claim, Fulfill) with the   *)
(*                grants that fund the submissions                         *)
(*   SpecLedger : the credit ledger and the payment flow                   *)
(***************************************************************************)
LedgerStep(t) ==
  \/ use_user_report_read(t)
  \/ use_user_report_commit(t)
  \/ create_user_subscription_read(t)
  \/ create_user_subscription_commit(t)

PaymentStep(t) ==
  \/ complete_payment_read(t)
  \/ complete_payment_commit(t)

TicketStep(t) ==
  \/ take_get_ticket(t)
  \/ take_update(t)
  \/ done_get_ticket(t)
  \/ done_update(t)
  \/ submit_can_generate(t)
  \/ submit_create_ticket(t)

LedgerStart(t) ==
  \/ \E u \in Requesters : call_use_user_report(t, u)
  \/ \E u \in Requesters, n \in GrantSizes : call_create_user_subscription(t, u, n)
  \/ \E u \in Requesters, ptype \in PaymentTypes : create_payment(t, u, ptype)
  \/ \E pid \in 1..MaxPayments : call_complete_payment(t, pid)

TicketStart(t) ==
  \/ \E u \in Requesters, n \in GrantSizes : call_create_user_subscription(t, u, n)
  \/ \E id \in TicketRefs, m \in Operators, c \in BOOLEAN : handle_take_ticket(t, id, m, c)
  \/ \E m \in Operators, c \in BOOLEAN, r \in {NoReply, NoMatch} \cup TicketRefs,
        d \in Documents : handle_document_reply(t, m, c, r, d)
  \/ \E u \in Requesters, x \in Texts : handle_vin_message(t, u, x)

PaymentStart(t) ==
  \/ \E u \in Requesters, ptype \in PaymentTypes : create_payment(t, u, ptype)
  \/ \E pid \in 1..MaxPayments : call_complete_payment(t, pid)

SubmitStart(t) ==
  \/ \E u \in Requesters, n \in GrantSizes : call_create_user_subscription(t, u, n)
  \/ \E u \in Requesters, x \in Texts : handle_vin_message(t, u, x)

Next ==
  \/ init_db
  \/ initialize
  \/ \E t \in Tasks : FirstFree(t) /\ TicketStart(t)
  \/ \E t \in Tasks : TicketStep(t) \/ LedgerStep(t)

Spec == Init /\ [][Next]_vars

\* the operators' side: tickets as create_ticket leaves them, Claim and Fulfill
DeskStart(t) ==
  \/ \E u \in Requesters, v \in Vins : call_create_ticket(t, v, u)
  \/ \E id \in TicketRefs, m \in Operators, c \in BOOLEAN : handle_take_ticket(t, id, m, c)
  \/ \E m \in Operators, c \in BOOLEAN, r \in TicketRefs \cup {NoReply, NoMatch},
        d \in Documents : handle_document_reply(t, m, c, r, d)

DeskStep(t) ==
  \/ take_get_ticket(t)
  \/ take_update(t)
  \/ done_get_ticket(t)
  \/ done_update(t)

NextTickets ==
  \/ initialize
  \/ \E t \in Tasks : StartSlot(t) /\ DeskStart(t)
  \/ \E t \in Tasks : DeskStep(t)

SpecTickets == Init /\ [][NextTickets]_vars

\* the same with an unreachable remote backend at start-up and failing sends
NextTicketFaults ==
  \/ initialize
  \/ initialize_remote_unreachable
  \/ \E t \in Tasks : StartSlot(t) /\ DeskStart(t)
  \/ \E t \in Tasks : DeskStep(t)
  \/ \E t \in Tasks : done_update_send_fails(t)

SpecTicketFaults == Init /\ [][NextTicketFaults]_vars

\* the operators' side with a store whose update can raise
NextStoreFaults ==
  \/ initialize
  \/ \E t \in Tasks : StartSlot(t) /\ DeskStart(t)
  \/ \E t \in Tasks : DeskStep(t)
  \/ \E t \in Tasks : done_update_raises(t)

SpecStoreFaults == Init /\ [][NextStoreFaults]_vars

NextLedger ==
  \/ init_db
  \/ \E t \in Tasks : FirstFree(t) /\ LedgerStart(t)
  \/ \E t \in Tasks : LedgerStep(t) \/ PaymentStep(t)

SpecLedger == Init /\ [][NextLedger]_vars

\* the credit ledger with one call at a time
LedgerSeqStart(t) ==
  \/ \E u \in Requesters : call_use_user_report(t, u)
  \/ \E u \in Requesters, n \in DirectGrantSizes : call_create_user_subscription(t, u, n)

NextLedgerSeq ==
  \/ init_db
  \/ \E t \in Tasks : AllFree /\ NextSlot(t) /\ LedgerSeqStart(t)
  \/ \E t \in Tasks : LedgerStep(t)

SpecLedgerSeq == Init /\ [][NextLedgerSeq]_vars

\* the payment flow with one call at a time
NextPaymentSeq ==
  \/ init_db
  \/ \E t \in Tasks : AllFree /\ NextSlot(t) /\ PaymentStart(t)
  \/ \E t \in Tasks : create_user_subscription_read(t)
                        \/ create_user_subscription_commit(t)
                        \/ PaymentStep(t)

SpecPaymentSeq == Init /\ [][NextPaymentSeq]_vars

\* the same with a store that can fail a read or a commit
NextPaymentFaults ==
  \/ init_db
  \/ \E t \in Tasks : AllFree /\ NextSlot(t) /\ PaymentStart(t)
  \/ \E t \in Tasks : create_user_subscription_read(t)
                        \/ create_user_subscription_commit(t)
                        \/ PaymentStep(t)
  \/ \E t \in Tasks : create_user_subscription_read_fails(t)
                        \/ create_user_subscription_commit_fails(t)
                        \/ complete_payment_commit_fails(t)

SpecPaymentFaults == Init /\ [][NextPaymentFaults]_vars

\* submissions and the grants that fund them
NextSubmit ==
  \/ init_db
  \/ initialize
  \/ \E t \in Tasks : FirstFree(t) /\ SubmitStart(t)
  \/ \E t \in Tasks : submit_can_generate(t) \/ submit_create_ticket(t) \/ LedgerStep(t)

SpecSubmit == Init /\ [][NextSubmit]_vars

\* the same with sends to the requester and to the operator chat that can fail
NextSubmitFaults ==
  \/ init_db
  \/ initialize
  \/ \E t \in Tasks : FirstFree(t) /\ SubmitStart(t)
  \/ \E t \in Tasks : submit_can_generate(t) \/ submit_create_ticket(t) \/ LedgerStep(t)
  \/ \E t \in Tasks : submit_create_ticket_answer_fails(t)
                        \/ submit_create_ticket_send_fails(t)
                        \/ submit_create_ticket_fails(t)

SpecSubmitFaults == Init /\ [][NextSubmitFaults]_vars

\* the ticket lifecycle where every Fulfill is a reply to a card of the
\* operator chat
CardStart(t) ==
  \/ \E u \in Requesters, n \in GrantSizes : call_create_user_subscription(t, u, n)
  \/ \E u \in Requesters, x \in Texts : handle_vin_message(t, u, x)
  \/ \E id \in TicketRefs, m \in Operators, c \in BOOLEAN : handle_take_ticket(t, id, m, c)
  \/ \E m \in Operators, k \in TicketRefs, d \in Documents :
        handle_document_reply_to_card(t, m, k, d)

NextCards ==
  \/ init_db
  \/ initialize
  \/ \E t \in Tasks : FirstFree(t) /\ CardStart(t)
  \/ \E t \in Tasks : TicketStep(t) \/ LedgerStep(t)

SpecCards == Init /\ [][NextCards]_vars

\* the validators, one call in each behaviour
NextValidators ==
  \/ \E vin \in VinInputs : \/ call_validate(1, vin)
                             \/ call_normalize(1, vin)
                             \/ call_is_valid(1, vin)
  \/ \E file_size \in FileSizes :
        \/ \E max_size \in MaxSizes : call_validate_document_size(1, file_size, max_size)
        \/ call_validate_document_size_default(1, file_size)
  \/ \E file_name \in FileNames, file_size \in {n \in FileSizes : n >= 0},
        max_file_size \in MaxSizes :
          call_document_checks(1, file_name, file_size, max_file_size)

SpecValidators == Init /\ [][NextValidators]_vars

(***************************************************************************)
(* Helpers of the properties.                                              *)
(***************************************************************************)
RECURSIVE SumTotal(_)
SumTotal(rows) ==
  IF rows = {} THEN 0
  ELSE LET i == CHOOSE x \in rows : TRUE
       IN  subscriptions[i].total_reports + SumTotal(rows \ {i})

RECURSIVE SumRemaining(_)
SumRemaining(rows) ==
  IF rows = {} THEN 0
  ELSE LET i == CHOOSE x \in rows : TRUE
       IN  subscriptions[i].reports_remaining + SumRemaining(rows \ {i})

RECURSIVE SumReports(_)
SumReports(ps) ==
  IF ps = {} THEN 0
  ELSE LET i == CHOOSE x \in ps : TRUE
       IN  payments[i].reports_count + SumReports(ps \ {i})

RECURSIVE SumCounts(_)
SumCounts(ts) ==
  IF ts = {} THEN 0
  ELSE LET t == CHOOSE x \in ts : TRUE
       IN  task[t].count + SumCounts(ts \ {t})

CompletedPayments(u) ==
  {i \in DOMAIN payments : payments[i].user_id = u /\ payments[i].status = "completed"}

Finished(t, kind) == task[t].kind = kind /\ task[t].pc = "done"

\* the requester has one balance row and it holds n remaining reports
Balance(u, n) ==
  /\ session_factory
  /\ Cardinality(SubRows(u)) = 1
  /\ \A i \in SubRows(u) : subscriptions[i].reports_remaining = n

(***************************************************************************)
(* C1.  Two operators claim the same NEW ticket concurrently: exactly one  *)
(* gets the success outcome, the other gets "already assigned", and the    *)
(* ticket is TAKEN.  Stated over the finished Claim handlers: a successful *)
(* Claim leaves the ticket out of NEW, and no two Claims of one ticket     *)
(* both succeed.                                                           *)
(***************************************************************************)
C1_ExactlyOneClaimSucceeds ==
  \A a \in Tasks :
    (Finished(a, "claim") /\ task[a].ret = "success") =>
      /\ tickets[task[a].ref].status # "NEW"
      /\ \A b \in Tasks \ {a} :
           (Finished(b, "claim") /\ task[b].ref = task[a].ref
              /\ task[b].ret \in {"success", "already_assigned"})
           => task[b].ret = "already_assigned"

(***************************************************************************)
(* C2.  A requester has one remaining report; two consume calls            *)
(* (use_user_report) run concurrently: exactly one returns True and the    *)
(* final reports_remaining is 0.  A balance whose total_reports is 1 has   *)
(* received a single grant of one report, so of the consume calls that     *)
(* have returned at most one returned True, and after a True the balance   *)
(* is 0.                                                                   *)
(***************************************************************************)
C2_OneCreditOneConsume ==
  \A u \in Requesters :
    (Cardinality(SubRows(u)) = 1 /\ SumTotal(SubRows(u)) = 1) =>
      \A a \in Tasks :
        (Finished(a, "use") /\ task[a].who = u /\ task[a].ret = "True") =>
          /\ SumRemaining(SubRows(u)) = 0
          /\ \A b \in Tasks \ {a} :
               (Finished(b, "use") /\ task[b].who = u) => task[b].ret # "True"

(***************************************************************************)
(* C3.  complete_payment called twice in sequence on a pending payment:    *)
(* the first call returns True, marks the payment completed and grants its *)
(* reports once; the second returns False and changes nothing.  With one   *)
(* call at a time: a call returns without a grant only for an absent or    *)
(* non-pending payment and then leaves the store alone; a call that goes   *)
(* on returns True with the payment completed; no two finished calls on    *)
(* one payment both returned True; and between calls every requester's     *)
(* balance is exactly the reports of that requester's completed payments.  *)
(***************************************************************************)
C3_Quiescent ==
  AllFree =>
    \A u \in Requesters :
      /\ Cardinality(SubRows(u)) <= 1
      /\ SumTotal(SubRows(u)) = SumReports(CompletedPayments(u))
      /\ SumRemaining(SubRows(u)) = SumReports(CompletedPayments(u))

C3_AtMostOneTrue ==
  \A a, b \in Tasks :
    (a # b /\ Finished(a, "complete") /\ Finished(b, "complete")
       /\ task[a].ref = task[b].ref /\ task[a].ret = "True")
    => task[b].ret # "True"

C3_Step(t) ==
  /\ (task[t].pc = "pay_read" /\ task'[t].pc = "done") =>
       /\ UNCHANGED store
       /\ IF session_factory
            THEN /\ task'[t].ret = "False"
                 /\ \/ task[t].ref \notin DOMAIN payments
                    \/ payments[task[t].ref].status # "pending"
            ELSE task'[t].ret = "raise"
  /\ (task[t].pc = "pay_read" /\ task[t].ref \in DOMAIN payments /\ session_factory) =>
       (task'[t].pc = "done" <=> payments[task[t].ref].status # "pending")
  /\ (task[t].kind = "complete" /\ task[t].pc \in {"grant_read", "grant_commit", "pay_commit"}
        /\ task'[t].pc = "done") =>
       /\ task'[t].ret = "True"
       /\ payments'[task[t].ref].status = "completed"
       /\ payments'[task[t].ref].completed_at

C3_SecondCompletionIsNoOp ==
  [][(\A t \in Tasks : C3_Step(t)) /\ C3_Quiescent' /\ C3_AtMostOneTrue']_vars

\* both calls on one payment have returned, one True and one False, and the
\* requester holds the reports of the payment once
C3_Witness ==
  \E a, b \in Tasks :
    /\ a # b /\ Finished(a, "complete") /\ Finished(b, "complete")
    /\ task[a].ref = task[b].ref /\ task[a].ref \in DOMAIN payments
    /\ task[a].ret = "True" /\ task[b].ret = "False"
    /\ payments[task[a].ref].status = "completed"
    /\ SumTotal(SubRows(payments[task[a].ref].user_id)) = payments[task[a].ref].reports_count

(***************************************************************************)
(* C4.  Two complete_payment calls for one pending payment run             *)
(* concurrently: at most one returns True and the requester's balance      *)
(* grows by reports_count exactly once.                                    *)
(***************************************************************************)
C4_DuplicateCallbackGrantsOnce ==
  \A a, b \in Tasks :
    (a # b /\ Finished(a, "complete") /\ Finished(b, "complete")
       /\ task[a].ref = task[b].ref /\ task[a].ret = "True")
    => /\ task[b].ret # "True"
       /\ (events = 3 /\ Len(payments) = 1) =>
            LET u == payments[task[a].ref].user_id
            IN  /\ SumTotal(SubRows(u)) = payments[task[a].ref].reports_count
                /\ SumRemaining(SubRows(u)) = payments[task[a].ref].reports_count

(***************************************************************************)
(* C5.  A ticket's status only moves NEW -> TAKEN, NEW -> DONE or          *)
(* TAKEN -> DONE: DONE never changes and TAKEN never returns to NEW.       *)
(***************************************************************************)
C5_StatusOnlyMovesForward ==
  [][\A id \in DOMAIN tickets :
       \/ tickets'[id].status = tickets[id].status
       \/ tickets[id].status = "NEW" /\ tickets'[id].status \in {"TAKEN", "DONE"}
       \/ tickets[id].status = "TAKEN" /\ tickets'[id].status = "DONE"]_vars

(***************************************************************************)
(* C6.  Every balance row has 0 <= reports_remaining <= total_reports.     *)
(***************************************************************************)
C6_RemainingWithinTotal ==
  \A i \in DOMAIN subscriptions :
    /\ 0 <= subscriptions[i].reports_remaining
    /\ subscriptions[i].reports_remaining <= subscriptions[i].total_reports

(***************************************************************************)
(* C7.  N concurrent grants to a requester without a balance row end with  *)
(* one row whose total_reports = reports_remaining = the sum of the        *)
(* grants.  N is the number of task slots: when the grants in the slots    *)
(* are all the calls made so far and all have returned, the requester has  *)
(* one row holding their sum.                                              *)
(***************************************************************************)
C7_ConcurrentGrantsAllLand ==
  \A u \in Requesters :
    (/\ events = MaxTasks
     /\ \A t \in Tasks : Finished(t, "grant") /\ task[t].who = u /\ task[t].ret = "ok")
    => /\ Cardinality(SubRows(u)) = 1
       /\ SumTotal(SubRows(u)) = SumCounts(Tasks)
       /\ SumRemaining(SubRows(u)) = SumCounts(Tasks)

(***************************************************************************)
(* C8.  A requester with exactly one remaining report submits a valid      *)
(* identifier: the report is consumed (the balance becomes 0) before the   *)
(* ticket is created, the ticket is created NEW for that requester and     *)
(* identifier, and the operator pool is notified with that ticket's id.    *)
(* Step by step, for a Submit handler t: with the balance at 1 the check   *)
(* passes and the consume reads 1; the commit of that consume writes 0 and *)
(* only then is the ticket created; the creation appends a NEW ticket of   *)
(* the requester with the normalized identifier and posts its id to the    *)
(* operator pool.                                                          *)
(***************************************************************************)
C8_Step(t) ==
  /\ (task[t].pc = "can" /\ task'[t].pc # "can" /\ Balance(task[t].who, 1)) =>
       task'[t].pc = "use_read" /\ UNCHANGED <<store, chats>>
  /\ (task[t].kind = "submit" /\ task[t].pc = "use_read" /\ task'[t].pc # "use_read"
        /\ Balance(task[t].who, 1)) =>
       /\ task'[t].pc = "use_commit"
       /\ task'[t].rem = 0
       /\ task'[t].row \in SubRows(task[t].who)
       /\ UNCHANGED <<store, chats>>
  /\ (task[t].kind = "submit" /\ task[t].pc = "use_commit" /\ task'[t].pc # "use_commit"
        /\ task[t].rem = 0) =>
       /\ subscriptions'[task[t].row].reports_remaining = 0
       /\ task'[t].pc = "create"
       /\ UNCHANGED <<tickets, chats>>
  /\ (task'[t].pc = "create" /\ task[t].pc # "create") => task[t].pc = "use_commit"
  /\ (task[t].pc = "create" /\ task'[t].pc # "create") =>
       /\ tickets' = Append(tickets, [vin |-> task[t].text, user_id |-> task[t].who,
                                      status |-> "NEW", assignee_id |-> 0])
       /\ validate(task[t].text) = "ok" /\ normalize(task[t].text) = task[t].text
       /\ manager_chat' = Append(manager_chat, Len(tickets'))
       /\ task'[t].pc = "done" /\ task'[t].ret = "accepted" /\ task'[t].ref = Len(tickets')
       /\ UNCHANGED <<subscriptions, forwarded>>

NoCredit(u) ==
  \/ SubRows(u) = {}
  \/ Cardinality(SubRows(u)) = 1 /\ SumRemaining(SubRows(u)) = 0

C9_NoCreditMeansPurchaseOptions ==
  [][\A t \in Tasks :
       (task[t].pc = "can" /\ task'[t].pc # "can" /\ NoCredit(task[t].who)) =>
         /\ task'[t].pc = "done"
         /\ task'[t].ret = "purchase_options"
         /\ UNCHANGED <<store, chats>>]_vars

(***************************************************************************)
(* C10.  Submit never creates a second ticket for an identifier the same   *)
(* requester already has in status NEW or TAKEN: there is at most one      *)
(* non-terminal ticket per (requester, identifier).                        *)
(***************************************************************************)
C10_OneOpenTicketPerIdentifier ==
  \A i, j \in DOMAIN tickets :
    (/\ i # j
     /\ tickets[i].user_id = tickets[j].user_id
     /\ tickets[i].vin = tickets[j].vin
     /\ tickets[i].status \in {"NEW", "TAKEN"})
    => tickets[j].status = "DONE"

(***************************************************************************)
(* C11.  Fulfill on a ticket that is already DONE returns the 'already     *)
(* done' outcome and changes nothing: the ticket keeps the status and the  *)
(* assignee of the first fulfillment and no document is forwarded.  For a  *)
(* Fulfill handler t: when its get_ticket finds the status DONE, the       *)
(* handler ends with "already_done" and the store and the chats are left   *)
(* as they were; and "already_done" is given for a DONE ticket only.       *)
(***************************************************************************)
C11_Step(t) ==
  /\ (/\ task[t].pc = "done_get" /\ task'[t] # task[t]
      /\ task[t].ref \in DOMAIN tickets
      /\ tickets[task[t].ref].status = "DONE") =>
       /\ task'[t].pc = "done" /\ task'[t].ret = "already_done"
       /\ UNCHANGED <<store, chats>>
  /\ (task[t].pc = "done_get" /\ task'[t].pc = "done" /\ task'[t].ret = "already_done") =>
       /\ task[t].ref \in DOMAIN tickets
       /\ tickets[task[t].ref].status = "DONE"

C12_FulfillSetsDoneAndAssignee ==
  [][\A t \in Tasks :
       (task[t].kind = "fulfill" /\ task[t].pc = "done_update" /\ task'[t].pc = "done") =>
         /\ tickets'[task[t].ref].status = "DONE"
         /\ tickets'[task[t].ref].assignee_id = task[t].who
         /\ forwarded' = Append(forwarded, [to |-> tickets[task[t].ref].user_id,
                                            ticket |-> task[t].ref,
                                            by |-> task[t].who])]_vars

(***************************************************************************)
(* C13.  A Fulfill whose attachment is not a PDF or is larger than the     *)
(* size ceiling is rejected before any ticket access: the ticket keeps its *)
(* status and assignee and nothing is forwarded; a later Fulfill of the    *)
(* ticket with a valid document makes it DONE and forwards the document.   *)
(* For a Fulfill handler t: past the attachment checks the document is a   *)
(* PDF within the ceiling; with any other document the handler has ended   *)
(* with "not_pdf" or "too_big", and that step left the store and the chats *)
(* alone; only a handler holding a valid document sets DONE or forwards;   *)
(* and its update sets DONE and forwards to the ticket's requester.        *)
(***************************************************************************)
ValidDocument(rec) == rec.pdf /\ rec.size <= MAX_FILE_SIZE

C13_Step(t) ==
  /\ (task'[t].kind = "fulfill" /\ task'[t].pc \in {"done_get", "done_update"}) =>
       ValidDocument(task'[t])
  /\ (task'[t].kind = "fulfill" /\ task'[t].ref # 0 /\ ~ValidDocument(task'[t])) =>
       /\ task'[t].pc = "done"
       /\ task'[t].ret = IF ~task'[t].pdf THEN "not_pdf" ELSE "too_big"
  /\ (task'[t] # task[t] /\ task'[t].kind = "fulfill"
        /\ task'[t].ret \in {"not_pdf", "too_big"}) =>
       UNCHANGED <<store, chats>>
  /\ (task[t].kind = "fulfill" /\ task[t].pc = "done_update" /\ task'[t].pc = "done") =>
       /\ tickets'[task[t].ref].status = "DONE"
       /\ Len(forwarded') = Len(forwarded) + 1
       /\ forwarded'[Len(forwarded')].to = tickets[task[t].ref].user_id
       /\ forwarded'[Len(forwarded')].ticket = task[t].ref

C13_InvalidAttachmentRejected ==
  [][/\ \A t \in Tasks : C13_Step(t)
     /\ (forwarded' # forwarded \/ \E id \in DOMAIN tickets :
            tickets'[id].status = "DONE" /\ tickets[id].status # "DONE") =>
          \E t \in Tasks : task[t].pc = "done_update" /\ ValidDocument(task[t])]_vars

\* one Fulfill of a ticket was rejected for its attachment, another with a
\* valid document made the ticket DONE and forwarded to the requester
C13_Witness ==
  \E a, b \in Tasks :
    /\ Finished(a, "fulfill") /\ task[a].ret \in {"not_pdf", "too_big"}
    /\ Finished(b, "fulfill") /\ task[b].ret = "report_sent"
    /\ task[a].ref = task[b].ref /\ task[b].ref \in DOMAIN tickets
    /\ tickets[task[b].ref].status = "DONE"
    /\ Len(forwarded) = 1
    /\ forwarded[1].ticket = task[b].ref
    /\ forwarded[1].to = tickets[task[b].ref].user_id

(***************************************************************************)
(* C14.  Claim on a ticket that does not exist, or whose status is TAKEN   *)
(* or DONE, is rejected with an explicit outcome and writes nothing: the   *)
(* ticket's status and assignee are unchanged and no ticket is created.    *)
(* For a Claim handler t: when its get_ticket finds a status other than    *)
(* NEW it ends with "already_assigned", when it finds no ticket it looks   *)
(* again or ends with "not_found", and in both cases the store is left as  *)
(* it was; no step of a Claim adds a ticket; and no ticket returns to NEW, *)
(* so a ticket that was TAKEN or DONE before the Claim is found so.        *)
(***************************************************************************)
C14_Step(t) ==
  /\ (/\ task[t].pc = "take_get" /\ task'[t] # task[t]
      /\ task[t].ref \in DOMAIN tickets
      /\ tickets[task[t].ref].status # "NEW") =>
       /\ task'[t].pc = "done" /\ task'[t].ret = "already_assigned"
       /\ UNCHANGED <<store, chats>>
  /\ (/\ task[t].pc = "take_get" /\ task'[t] # task[t]
      /\ task[t].ref \notin DOMAIN tickets) =>
       /\ \/ task'[t].pc = "take_get"
          \/ task'[t].pc = "done" /\ task'[t].ret = "not_found"
       /\ UNCHANGED <<store, chats>>
  /\ (task'[t].kind = "claim" /\ task'[t] # task[t]) => Len(tickets') = Len(tickets)

C14_ClaimOnNonNewRejected ==
  [][/\ \A t \in Tasks : C14_Step(t)
     /\ \A id \in DOMAIN tickets :
          tickets'[id].status = "NEW" => tickets[id].status = "NEW"]_vars

\* a Claim was refused on a ticket that another operator holds
C14_Witness ==
  \E t \in Tasks :
    /\ Finished(t, "claim") /\ task[t].ret = "already_assigned"
    /\ task[t].ref \in DOMAIN tickets
    /\ tickets[task[t].ref].status = "TAKEN"
    /\ tickets[task[t].ref].assignee_id \in Operators \ {task[t].who}

(***************************************************************************)
(* C15.  After a successful Claim by operator o on a NEW ticket the ticket *)
(* has status TAKEN and assignee_id = o, on the local and on the remote    *)
(* backend alike.                                                          *)
(***************************************************************************)
C15_ClaimStoresAssignee ==
  [][\A t \in Tasks :
       (task[t].kind = "claim" /\ task[t].pc = "take_update" /\ task'[t].pc = "done") =>
         /\ task'[t].ret = "success"
         /\ tickets'[task[t].ref].status = "TAKEN"
         /\ tickets'[task[t].ref].assignee_id = task[t].who]_vars

(***************************************************************************)
(* C16.  If forwarding the document fails after Fulfill has set the ticket *)
(* to DONE, nothing is rolled back: the ticket is DONE with the fulfilling *)
(* operator as assignee, and a later Claim or Fulfill finds it DONE.       *)
(***************************************************************************)
C16_FailedForwardKeepsDone ==
  [][\A t \in Tasks :
       (/\ task[t].kind = "fulfill" /\ task[t].pc = "done_update" /\ task'[t].pc = "done"
        /\ forwarded' = forwarded) =>
         /\ tickets'[task[t].ref].status = "DONE"
         /\ tickets'[task[t].ref].assignee_id = task[t].who]_vars

(***************************************************************************)
(* C17.  If forwarding the document fails during Fulfill the operator is   *)
(* told about the failure; the 'report sent' confirmation is given only    *)
(* when the document was forwarded.                                        *)
(***************************************************************************)
C17_ConfirmationOnlyAfterForward ==
  [][\A t \in Tasks :
       (/\ task[t].kind = "fulfill" /\ task[t].pc = "done_update"
        /\ task'[t].pc = "done" /\ task'[t].ret = "report_sent") =>
         /\ Len(forwarded') = Len(forwarded) + 1
         /\ forwarded'[Len(forwarded')].ticket = task[t].ref]_vars

(***************************************************************************)
(* C18.  If the grant step (create_user_subscription) raises inside        *)
(* complete_payment, the payment's persisted status stays pending with no  *)
(* completion timestamp, and a later complete_payment on the same id can   *)
(* still succeed and grant the reports.  For a complete_payment call t:    *)
(* when it ends in its grant step it raises and the payment is pending,    *)
(* without timestamp, as before; and a call that reads a pending payment   *)
(* goes on to grant that payment's reports to its requester.               *)
(***************************************************************************)
C18_Step(t) ==
  /\ (/\ task[t].kind = "complete" /\ task[t].pc \in {"grant_read", "grant_commit"}
      /\ task'[t].pc = "done") =>
       /\ task'[t].ret = "raise"
       /\ payments' = payments
       /\ payments[task[t].ref].status = "pending"
       /\ ~payments[task[t].ref].completed_at
  /\ (/\ task[t].pc = "pay_read" /\ task'[t] # task[t] /\ session_factory
      /\ task[t].ref \in DOMAIN payments
      /\ payments[task[t].ref].status = "pending") =>
       /\ task'[t].pc = "grant_read"
       /\ task'[t].owner = payments[task[t].ref].user_id
       /\ task'[t].count = payments[task[t].ref].reports_count

C18_FailedGrantLeavesPending == [][\A t \in Tasks : C18_Step(t)]_vars

\* payment 1 was created, its first completion raised in the grant step, the
\* second returned True: the payment is completed and granted once
C18_Witness ==
  LET first == (1 % MaxTasks) + 1
      second == (2 % MaxTasks) + 1
  IN  /\ events = 3 /\ Len(payments) = 1
      /\ Finished(first, "complete") /\ task[first].ref = 1 /\ task[first].ret = "raise"
      /\ Finished(second, "complete") /\ task[second].ref = 1 /\ task[second].ret = "True"
      /\ payments[1].status = "completed"
      /\ SumTotal(SubRows(payments[1].user_id)) = payments[1].reports_count

(***************************************************************************)
(* C19.  In every quiescent state (no complete_payment in progress), also  *)
(* after a failed grant commit or a failed payment-status commit, each     *)
(* requester's total_reports is the sum of reports_count over that         *)
(* requester's completed payments.                                         *)
(***************************************************************************)
C19_BalanceMatchesCompleted ==
  (\A t \in Tasks : Free(t)) =>
    \A u \in Requesters :
      SumTotal(SubRows(u)) = SumReports(CompletedPayments(u))

(***************************************************************************)
(* C20.  If the remote backend is selected and unreachable during          *)
(* initialize, initialization ends on the local backend and every later    *)
(* create_ticket, get_ticket and update_ticket_status call is served by    *)
(* the local backend: with the local backend initialised, no ticket call   *)
(* ends in an error.                                                       *)
(***************************************************************************)
C20_FallbackServesLocally ==
  adapter = "sqlite" =>
    \A t \in Tasks :
      (task[t].pc = "done" /\ task[t].kind \in {"create", "claim", "fulfill"})
      => task[t].ret # "error"

(***************************************************************************)
(* C21.  Every Submit, Claim and Fulfill event handled after               *)
(* VINReportBot.initialize completes or reports a recoverable outcome to   *)
(* its originator; when a ledger operation raises during Submit the        *)
(* requester gets an error message and no exception escapes the handler.   *)
(***************************************************************************)
C21_NoExceptionEscapes ==
  \A t \in Tasks :
    (task[t].pc = "done" /\ task[t].kind \in {"submit", "claim", "fulfill"})
    => task[t].ret # "raised"

(***************************************************************************)
(* C26.  Claim's lookup of a ticket that is not visible ends after 3       *)
(* get_ticket attempts with 'not found' and no write; if the ticket is     *)
(* visible at any attempt within the bound, Claim goes on with the status  *)
(* check on it.  For a Claim handler t that looks up: it has missed fewer  *)
(* than 3 times; a miss writes nothing and is the 3rd miss exactly when    *)
(* the handler ends, with "not_found"; a hit at any attempt ends the       *)
(* lookup with the status check (claim of a NEW ticket, refusal            *)
(* otherwise).                                                             *)
(***************************************************************************)
C26_Step(t) ==
  /\ task'[t].pc = "take_get" => task'[t].tries \in 0..2
  /\ (task[t].pc = "take_get" /\ task'[t] # task[t] /\ ~BackendRaises
        /\ task[t].ref \notin DOMAIN tickets) =>
       /\ UNCHANGED <<store, chats>>
       /\ IF task[t].tries = 2
            THEN task'[t].pc = "done" /\ task'[t].ret = "not_found"
            ELSE task'[t].pc = "take_get" /\ task'[t].tries = task[t].tries + 1
  /\ (task[t].pc = "take_get" /\ task'[t] # task[t] /\ ~BackendRaises
        /\ task[t].ref \in DOMAIN tickets) =>
       IF tickets[task[t].ref].status = "NEW"
         THEN task'[t].pc = "take_update"
         ELSE task'[t].pc = "done" /\ task'[t].ret = "already_assigned"

C26_LookupIsBounded == [][\A t \in Tasks : C26_Step(t)]_vars

\* a Claim found, at a later attempt, the ticket it had missed
C26_Witness ==
  \E t \in Tasks :
    /\ task[t].kind = "claim" /\ task[t].pc = "take_update"
    /\ task[t].tries > 0
    /\ task[t].ref \in DOMAIN tickets

(***************************************************************************)
(* C29.  In every reachable state a ticket whose status is NEW has no      *)
(* assignee; an assignee is only written together with a status of TAKEN   *)
(* or DONE.                                                                *)
(***************************************************************************)
C29_Inv ==
  \A id \in DOMAIN tickets : tickets[id].status = "NEW" => tickets[id].assignee_id = 0

C29_NewHasNoAssignee ==
  [][/\ C29_Inv'
     /\ \A id \in DOMAIN tickets :
          tickets'[id].assignee_id # tickets[id].assignee_id =>
            /\ tickets'[id].status \in {"TAKEN", "DONE"}
            /\ tickets'[id].assignee_id \in Operators]_vars

\* one ticket is NEW without assignee while another is held by an operator
C29_Witness ==
  \E i, j \in DOMAIN tickets :
    /\ tickets[i].status = "NEW" /\ tickets[i].assignee_id = 0
    /\ tickets[j].status \in {"TAKEN", "DONE"} /\ tickets[j].assignee_id \in Operators

(***************************************************************************)
(* C30.  In every reachable state there is at most one balance row per     *)
(* requester, also after two first-time grants for the same requester ran  *)
(* concurrently.                                                           *)
(***************************************************************************)
C30_OneRowPerRequester ==
  \A u \in Requesters : Cardinality(SubRows(u)) <= 1

(***************************************************************************)
(* C22.  Consume returns False and changes nothing when the requester has  *)
(* no balance row or reports_remaining = 0; otherwise it returns True and  *)
(* persists reports_remaining decreased by exactly 1 with total_reports    *)
(* unchanged.  Stated over the two steps of a call on an initialised       *)
(* ledger, one call at a time: the read decides and writes nothing; the    *)
(* commit changes one field of the requester's row and nothing else.       *)
(***************************************************************************)
C22_Step(t) ==
  LET u == task[t].who
      empty == \A i \in SubRows(u) : subscriptions[i].reports_remaining = 0
  IN  /\ (task[t].pc = "use_read" /\ task'[t] # task[t] /\ session_factory) =>
           /\ UNCHANGED store
           /\ IF empty THEN task'[t].pc = "done" /\ task'[t].ret = "False"
                       ELSE task'[t].pc = "use_commit"
      /\ (task[t].pc = "use_commit" /\ task'[t] # task[t]) =>
           /\ task'[t].pc = "done" /\ task'[t].ret = "True"
           /\ UNCHANGED <<tickets, payments>>
           /\ \E i \in SubRows(u) :
                /\ subscriptions[i].reports_remaining > 0
                /\ subscriptions' =
                     [subscriptions EXCEPT ![i].reports_remaining = @ - 1]

C22_ConsumeTakesOne == [][\A t \in Tasks : C22_Step(t)]_vars

\* a requester with one report consumed it, and the next Consume was refused
C22_Witness ==
  \E a, b \in Tasks :
    /\ a # b
    /\ Finished(a, "use") /\ task[a].ret = "True"
    /\ Finished(b, "use") /\ task[b].ret = "False"
    /\ task[a].who = task[b].who
    /\ \A i \in SubRows(task[a].who) :
         subscriptions[i].reports_remaining = 0 /\ subscriptions[i].total_reports = 1

(***************************************************************************)
(* C23.  A grant of N reports to a requester with an existing row adds N   *)
(* to both reports_remaining and total_reports (3/5 becomes 103/105 with   *)
(* N = 100); a grant to a requester with no row creates one row with both  *)
(* fields equal to N.  Stated over the commit of a call, one call at a     *)
(* time: it changes nothing but that row.                                  *)
(***************************************************************************)
C23_Step(t) ==
  LET u == task[t].who
      n == task[t].count
  IN  /\ (task[t].pc = "grant_read" /\ task'[t] # task[t] /\ session_factory) =>
           /\ UNCHANGED store
           /\ task'[t].pc = "grant_commit"
      /\ (task[t].pc = "grant_commit" /\ task'[t] # task[t]) =>
           /\ task'[t].pc = "done" /\ task'[t].ret = "ok"
           /\ UNCHANGED <<tickets, payments>>
           /\ IF SubRows(u) = {}
                THEN subscriptions' = Append(subscriptions,
                       [user_id |-> u, reports_remaining |-> n, total_reports |-> n])
                ELSE \E i \in SubRows(u) :
                       subscriptions' =
                         [subscriptions EXCEPT ![i].reports_remaining = @ + n,
                                               ![i].total_reports = @ + n]

C23_GrantAddsToBoth == [][\A t \in Tasks : C23_Step(t)]_vars

\* a requester who held 3 of 5 reports holds 103 of 105 after a grant of 100
C23_Witness ==
  \E t \in Tasks :
    /\ Finished(t, "grant") /\ task[t].ret = "ok" /\ task[t].count = 100
    /\ Cardinality(SubRows(task[t].who)) = 1
    /\ \A i \in SubRows(task[t].who) :
         /\ subscriptions[i].reports_remaining = PriorGrant - 2 + 100
         /\ subscriptions[i].total_reports = PriorGrant + 100

(***************************************************************************)
(* C24.  create_payment('single') persists a pending payment with amount   *)
(* 200 and reports_count 1; create_payment('bulk') persists a pending      *)
(* payment with amount 10000 and reports_count 100; any other type raises  *)
(* ValueError and persists nothing; none of them changes a balance.        *)
(* Stated over the step of a call on an initialised store.                 *)
(***************************************************************************)
C24_Pending(u, ptype, amount, reports_count) ==
  [user_id |-> u, payment_type |-> ptype, amount |-> amount,
   reports_count |-> reports_count, status |-> "pending", completed_at |-> FALSE]

C24_Step(t) ==
  (events' # events /\ NextSlot(t) /\ task'[t].kind = "create_payment"
     /\ session_factory) =>
    /\ UNCHANGED <<subscriptions, tickets>>
    /\ task'[t].pc = "done"
    /\ IF task'[t].st = "single"
         THEN /\ task'[t].ret = "created"
              /\ payments' = Append(payments, C24_Pending(task'[t].who, "single", 200, 1))
       ELSE IF task'[t].st = "bulk"
         THEN /\ task'[t].ret = "created"
              /\ payments' = Append(payments, C24_Pending(task'[t].who, "bulk", 10000, 100))
       ELSE /\ task'[t].ret = "ValueError"
            /\ UNCHANGED payments

C24_PaymentTiers == [][\A t \in Tasks : C24_Step(t)]_vars

\* a single and a bulk payment are pending, an unknown type was refused,
\* and no balance exists
C24_Witness ==
  /\ \E i, j \in DOMAIN payments :
       /\ payments[i].payment_type = "single" /\ payments[i].amount = 200
       /\ payments[i].reports_count = 1 /\ payments[i].status = "pending"
       /\ payments[j].payment_type = "bulk" /\ payments[j].amount = 10000
       /\ payments[j].reports_count = 100 /\ payments[j].status = "pending"
  /\ \E t \in Tasks : Finished(t, "create_payment") /\ task[t].ret = "ValueError"
                        /\ task[t].st = "gold"
  /\ subscriptions = <<>>

(***************************************************************************)
(* C25.  A Submit whose text fails validation never reaches a ledger or    *)
(* ticket operation: it creates no ticket, consumes no credit, sends no    *)
(* operator notification, and the requester receives the validation        *)
(* reason.  A handler that is past the validator holds a valid normalized  *)
(* text; a handler whose text is not valid ended at its first step, with   *)
(* the validator's verdict as outcome and nothing written.                 *)
(***************************************************************************)
C25_ValidTexts == {normalize(Strip(x)) : x \in {y \in Texts : Validated[y] = "ok"}}

C25_Step(t) ==
  /\ (task'[t].kind = "submit" /\ task'[t].pc # "done") =>
       task'[t].text \in C25_ValidTexts
  /\ (task'[t].kind = "submit" /\ task'[t] # task[t]
        /\ task'[t].text \notin C25_ValidTexts) =>
       /\ Free(t)
       /\ task'[t].pc = "done"
       /\ task'[t].ret = validate(task'[t].text)
       /\ task'[t].ret \in {"empty", "length", "forbidden", "invalid"}
       /\ UNCHANGED <<store, chats>>

C25_InvalidTextStopsAtValidator == [][\A t \in Tasks : C25_Step(t)]_vars

\* a requester who holds a credit sent a text with a forbidden letter: the
\* credit is still there and no ticket exists
C25_Witness ==
  \E t \in Tasks :
    /\ Finished(t, "submit") /\ task[t].text = VinBad /\ task[t].ret = "forbidden"
    /\ Balance(task[t].who, 1)
    /\ tickets = <<>> /\ manager_chat = <<>>

(***************************************************************************)
(* C27.  A NEW ticket that was never claimed can be brought directly to    *)
(* DONE by an operator replying with a valid PDF to the notification that  *)
(* Submit posted for it: the ticket id is recovered from that notification *)
(* and the Fulfill transition is applied.  Where every Fulfill is a reply  *)
(* to a card of the operator chat, the handler always recovers a ticket    *)
(* number from the card.                                                   *)
(***************************************************************************)
C27_ReplyToNotificationFindsTicket ==
  \A t \in Tasks : Finished(t, "fulfill") => task[t].ret # "no_ticket_number"

(***************************************************************************)
(* C28.  Whenever Submit has persisted a new ticket, the handler goes on   *)
(* to send the operator-pool notification for it, whatever the outcome of  *)
(* the confirmation to the requester; a failure of the operator-pool send  *)
(* itself leaves the ticket in place with status NEW.  For the step of a   *)
(* Submit that adds a ticket: the ticket is NEW, and either its card is    *)
(* appended to the operator chat or the handler reached that send and      *)
(* ended normally.                                                         *)
(***************************************************************************)
C28_NotificationFollowsTicket ==
  [][\A t \in Tasks :
       (task[t].pc = "create" /\ task'[t] # task[t]
          /\ Len(tickets') = Len(tickets) + 1) =>
         /\ tickets'[Len(tickets')].status = "NEW"
         /\ \/ manager_chat' = Append(manager_chat, Len(tickets'))
            \/ task'[t].ret = "accepted" /\ manager_chat' = manager_chat]_vars

(***************************************************************************)
(* C31.  As stated: for every input string whose length is not 17,         *)
(* validate returns not-ok with the length reason (the empty reason is     *)
(* accepted for the empty string).                                         *)
(***************************************************************************)
C31_LengthOfInput ==
  \A t \in Tasks :
    (Finished(t, "validate") /\ Len(task[t].text) # 17) =>
      \/ task[t].ret = "length"
      \/ task[t].text = <<>> /\ task[t].ret = "empty"

(***************************************************************************)
(* C31, amended: for every input string whose normalized form (surrounding *)
(* whitespace removed, letters upper-cased) has a length other than 17,    *)
(* validate returns not-ok with the length reason, or with the empty       *)
(* reason for the empty string.                                            *)
(***************************************************************************)
C31_LengthOfNormalized ==
  \A t \in Tasks :
    (Finished(t, "validate") /\ Len(normalize(task[t].text)) # 17) =>
      \/ task[t].ret = "length"
      \/ task[t].text = <<>> /\ task[t].ret = "empty"

\* a 17-character input that is 16 characters within its padding is refused
\* for its length
C31_Witness ==
  \E t \in Tasks :
    /\ Finished(t, "validate") /\ task[t].ret = "length"
    /\ Len(task[t].text) = 17 /\ Len(normalize(task[t].text)) = 16

(***************************************************************************)
(* C32.  As stated: for every 17-character input string that contains I,   *)
(* O or Q in either case, validate returns not-ok with the forbidden-      *)
(* character reason.                                                       *)
(***************************************************************************)
C32_ForbiddenInInput ==
  \A t \in Tasks :
    (/\ Finished(t, "validate") /\ Len(task[t].text) = 17
     /\ Range(task[t].text) \cap {"I", "O", "Q", "i", "o", "q"} # {}) =>
      task[t].ret = "forbidden"

(***************************************************************************)
(* C32, amended: for every input string whose normalized form has 17       *)
(* characters and contains I, O or Q (the input holds the letter in either *)
(* case), validate returns not-ok with the forbidden-character reason.     *)
(***************************************************************************)
C32_ForbiddenInNormalized ==
  \A t \in Tasks :
    (/\ Finished(t, "validate") /\ Len(normalize(task[t].text)) = 17
     /\ Range(Strip(task[t].text)) \cap {"I", "O", "Q", "i", "o", "q"} # {}) =>
      task[t].ret = "forbidden"

\* a padded input with a lower-case forbidden letter is refused for the letter
C32_Witness ==
  \E t \in Tasks :
    /\ Finished(t, "validate") /\ task[t].ret = "forbidden"
    /\ Len(task[t].text) > 17
    /\ Range(task[t].text) \cap {"i", "o", "q"} # {}

(***************************************************************************)
(* C33.  normalize is idempotent, normalize(normalize(x)) = normalize(x),  *)
(* and its result has no surrounding whitespace and no lowercase letters.  *)
(***************************************************************************)
C33_NormalizeIdempotent ==
  \A t \in Tasks :
    Finished(t, "normalize") =>
      LET y == task[t].out
      IN  /\ normalize(y) = y
          /\ y # <<>> => (y[1] \notin Whitespace /\ y[Len(y)] \notin Whitespace)
          /\ Range(y) \cap Range(LowerChars) = {}

\* a padded lower-case input came out trimmed and upper-cased
C33_Witness ==
  \E t \in Tasks :
    /\ Finished(t, "normalize")
    /\ Len(task[t].text) > 17
    /\ task[t].text[1] \in Whitespace
    /\ Range(task[t].text) \cap Range(LowerChars) # {}
    /\ Len(task[t].out) = 17 /\ task[t].out # task[t].text

(***************************************************************************)
(* C34.  validate(x) is ok exactly when normalize(x) consists of 17        *)
(* characters all drawn from digits and uppercase letters other than I, O, *)
(* Q; otherwise it reports the first failing check in the order empty,     *)
(* wrong length, forbidden character, invalid character; and is_valid(x)   *)
(* equals the ok component of validate(x).                                 *)
(***************************************************************************)
C34_Accepted ==
  {"0","1","2","3","4","5","6","7","8","9",
   "A","B","C","D","E","F","G","H","J","K","L","M","N","P","R","S","T","U",
   "V","W","X","Y","Z"}

C34_Expected(x) ==
  LET n == normalize(x)
  IN  IF Len(x) = 0 THEN "empty"
      ELSE IF Len(n) # 17 THEN "length"
      ELSE IF \E i \in 1..17 : n[i] \in {"I", "O", "Q"} THEN "forbidden"
      ELSE IF \E i \in 1..17 : n[i] \notin C34_Accepted THEN "invalid"
      ELSE "ok"

C34_ValidateOrder ==
  \A t \in Tasks :
    /\ Finished(t, "validate") =>
         /\ task[t].ret = C34_Expected(task[t].text)
         /\ task[t].ret = "ok" <=>
              /\ Len(normalize(task[t].text)) = 17
              /\ \A i \in 1..17 : normalize(task[t].text)[i] \in C34_Accepted
    /\ Finished(t, "is_valid") =>
         (task[t].ret = "True" <=> C34_Expected(task[t].text) = "ok")

\* an input of 17 allowed characters but one, which is no letter or digit,
\* is refused as invalid
C34_Witness ==
  \E t \in Tasks :
    /\ Finished(t, "validate") /\ task[t].ret = "invalid"
    /\ Len(normalize(task[t].text)) = 17
    /\ "-" \in Range(task[t].text)

(***************************************************************************)
(* C35.  The document type and size check is the same on every Fulfill     *)
(* transport: for any attachment (file name, file size) and any configured *)
(* max_file_size, the reply path (user.handle_document_reply) accepts it   *)
(* exactly when the manager path (manager.cmd_done,                        *)
(* manager.handle_document_reply) accepts it.                              *)
(***************************************************************************)
C35_SameCheckOnEveryTransport ==
  \A t \in Tasks : Finished(t, "document_checks") => task[t].ret = task[t].st

(***************************************************************************)
(* C36.  validate_document_size(size, max) is ok exactly when              *)
(* 0 < size <= max (the ceiling itself is accepted; zero, negative and     *)
(* larger sizes are rejected), with max defaulting to 50 MiB.              *)
(***************************************************************************)
C36_SizeWithinCeiling ==
  \A t \in Tasks :
    /\ Finished(t, "document_size") =>
         (task[t].ret = "ok" <=> (0 < task[t].size /\ task[t].size <= task[t].count))
    /\ Finished(t, "document_size_default") =>
         (task[t].ret = "ok" <=> (0 < task[t].size /\ task[t].size <= 50 * 1024 * 1024))

\* a document of exactly the default ceiling is accepted
C36_Witness ==
  \E t \in Tasks :
    /\ Finished(t, "document_size_default")
    /\ task[t].size = 50 * 1024 * 1024 /\ task[t].ret = "ok"

(***************************************************************************)
(* C37.  In every quiescent state, for every requester, the number of      *)
(* tickets created for that requester equals the number of credits         *)
(* consumed from that requester's balance (total_reports -                 *)
(* reports_remaining): a Submit that consumes a credit always results in a *)
(* persisted ticket, also when create_ticket fails, and no ticket is       *)
(* created without a consumed credit.                                      *)
(***************************************************************************)
C37_TicketsMatchConsumedCredits ==
  AllFree =>
    \A u \in Requesters :
      Cardinality({id \in DOMAIN tickets : tickets[id].user_id = u})
        = SumTotal(SubRows(u)) - SumRemaining(SubRows(u))

(***************************************************************************)
(* C38.  A document is forwarded to a requester only for a ticket whose    *)
(* persisted status has been set to DONE by that Fulfill: if               *)
(* update_ticket_status fails or raises during Fulfill, nothing is         *)
(* forwarded and the ticket stays in its prior state.                      *)
(***************************************************************************)
C38_ForwardOnlyAfterDone ==
  [][\A t \in Tasks :
       (task[t].kind = "fulfill" /\ task[t].pc = "done_update" /\ task'[t].pc = "done"
          /\ forwarded' # forwarded) =>
         /\ tickets' = update_ticket_status(tickets, task[t].ref, "DONE", task[t].who)
         /\ tickets'[task[t].ref].status = "DONE"]_vars

(***************************************************************************)
(* C39.  For each ticket, a document is forwarded to the requester at most *)
(* once: when two operators run Fulfill on the same non-DONE ticket        *)
(* concurrently, exactly one Fulfill succeeds and forwards its document    *)
(* and the other gets the 'already done' outcome.                          *)
(***************************************************************************)
C39_ForwardedAtMostOnce ==
  \A i, j \in DOMAIN forwarded :
    forwarded[i].ticket = forwarded[j].ticket => i = j

====
